---- MODULE Spec2Model ----
(***************************************************************************)
(* Student Event Performance Analyzer API (src/main.py, src/schemas.py).   *)
(*                                                                         *)
(* The state is the two collections the handlers read and write (student,  *)
(* participation), the position of every in-flight create_student request  *)
(* and the last response of each handler.  A Python str that is ordered    *)
(* (roll_number) is a sequence of one-character strings compared by code   *)
(* point; a str that is only compared for equality is a TLA+ string.  An   *)
(* Optional[str] query parameter is a set holding at most one string.      *)
(***************************************************************************)
EXTENDS Integers, Sequences, FiniteSets, TLC

VARIABLES
    participation,  \* db["participation"], in natural retrieval (insertion) order
    student,        \* db["student"], in natural retrieval (insertion) order
    stats_call,     \* last student_stats call: arguments, docs read, response
    roll_call,      \* last list_roll_numbers call: arguments, response
    cs,             \* create_student requests in flight, one per server thread
    create_resp     \* last create_student response

vars == <<participation, student, stats_call, roll_call, cs, create_resp>>

\* ------------------------------------------------------------------ bounds
MaxParticipations == 3
MaxStudents == 4

\* ------------------------------------------------------------------ values
NoCall == [pc |-> "none"]

None == {}
Some(s) == {s}
TheValue(opt) == CHOOSE s \in opt : TRUE

\* Python truthiness of an Optional[str]: None and "" are falsy.
Truthy(opt) == opt # None /\ opt # Some("")

R3910 == <<"2", "4", "9", "Y", "1", "A", "3", "9", "1", "0">>
R3902 == <<"2", "4", "9", "Y", "1", "A", "3", "9", "0", "2">>
R399 == <<"2", "4", "9", "Y", "1", "A", "3", "9", "9">>
RollNumbers == {R3910, R3902, R399}

AcademicYears == {"2024-25", "2025-26"}
Branches == {"AI & ML", "CSE"}
EventNames == {"Hackathon", "hackathon"}
EventDates == {"2024-09-01", "2024-10-01"}

\* ParticipationStatus = Literal["Attended", "Missed"]
ParticipationStatus == {"Attended", "Missed"}

\* semester: int = Field(..., ge=1, le=12)
SemesterOk(n) == n >= 1 /\ n <= 12

\* Participation bodies that pass validation.  The occurrence of October is
\* in the following semester and only "Hackathon" was held then; records of
\* another student or another year vary only in the fields the filter reads.
SemesterOf(event_date) == IF event_date = "2024-09-01" THEN 3 ELSE 4

Participation ==
    { p \in [roll_number : {R3910, R3902}, event_name : EventNames,
             event_date : EventDates, semester : {3, 4},
             status : ParticipationStatus, academic_year : AcademicYears,
             branch : {"AI & ML"}] :
        /\ SemesterOk(p.semester)
        /\ p.semester = SemesterOf(p.event_date)
        /\ p.event_name = "Hackathon" \/ p.event_date = "2024-09-01"
        /\ p.roll_number = R3910 \/ p.academic_year = "2024-25"
        /\ \/ p.roll_number = R3910 /\ p.academic_year = "2024-25"
           \/ /\ p.event_name = "Hackathon"
              /\ p.event_date = "2024-09-01"
              /\ p.status = "Attended" }

\* Student bodies that pass validation.
Student ==
    { s \in [roll_number : RollNumbers, name : {"N"}, branch : Branches,
             current_semester : {3}, academic_year : AcademicYears] :
        /\ SemesterOk(s.current_semester)
        /\ \/ s.branch = "AI & ML" /\ s.academic_year = "2024-25"
           \/ s.roll_number = R3910 /\ s.branch = "AI & ML"
           \/ s.roll_number = R3902 /\ s.academic_year = "2024-25" }

\* academic_year: Optional[str] = None, as a request can send it
QueryYears == {None, Some(""), Some("2024-25"), Some("2025-26")}

\* ------------------------------------------------------------ record store
\* collection.find(filter): the documents equal to the filter on each of its
\* fields, in natural order.
Matches(d, filter_q) == \A k \in DOMAIN filter_q : d[k] = filter_q[k]

find(collection, filter_q) == SelectSeq(collection, LAMBDA d : Matches(d, filter_q))

find_one(collection, filter_q) ==
    LET found == find(collection, filter_q)
    IN  IF found = <<>> THEN None ELSE Some(Head(found))

\* create(collection, record) -> id
create_document(collection, data) == Append(collection, data)

\* ------------------------------------------------------ insertion-ordered dict
EmptyDict == [keys |-> <<>>, val |-> <<>>]

Position(keys, k) == CHOOSE i \in 1..Len(keys) : keys[i] = k

DictHas(dict, k) == \E i \in 1..Len(dict.keys) : dict.keys[i] = k

DictGet(dict, k) == dict.val[Position(dict.keys, k)]

\* Variant: a new key goes first.
DictSetFront(dict, k, v) ==
    IF DictHas(dict, k)
    THEN [dict EXCEPT !.val[Position(dict.keys, k)] = v]
    ELSE [keys |-> <<k>> \o dict.keys, val |-> <<v>> \o dict.val]

\* dict[k] = v: a new key goes last, an existing key keeps its place.
DictSet(dict, k, v) ==
    IF DictHas(dict, k)
    THEN [dict EXCEPT !.val[Position(dict.keys, k)] = v]
    ELSE [keys |-> Append(dict.keys, k), val |-> Append(dict.val, v)]

\* ------------------------------------------------------------ student_stats
\* Variant: the academic_year is never added to the filter.
StatsFilterNoYear(roll_number, academic_year) == [roll_number |-> roll_number]

\* filter_q: roll_number always, academic_year only when it is truthy.
StatsFilter(roll_number, academic_year) ==
    IF Truthy(academic_year)
    THEN [roll_number |-> roll_number, academic_year |-> TheValue(academic_year)]
    ELSE [roll_number |-> roll_number]

\* Variant: the event name is lower-cased before grouping.
Lower(name) == IF name = "Hackathon" THEN "hackathon" ELSE name

EventKeyNormalised(d) == Lower(d.event_name)

\* event_name = d.get("event_name")
EventKey(d) == d.event_name

NewCounts == [held |-> 0, attended |-> 0, missed |-> 0]

\* if event_name not in summary: both dicts get the key
EnsureEntry(acc, event_name) ==
    IF ~DictHas(acc.summary, event_name)
    THEN [summary |-> DictSet(acc.summary, event_name, NewCounts),
          details |-> DictSet(acc.details, event_name, <<>>)]
    ELSE acc

Detail(d) == [date |-> d.event_date, semester |-> d.semester, status |-> d.status]

\* Variant: a second record of the same event and date is not counted.
IncHeldOncePerDate(acc, event_name, d) ==
    LET counts == DictGet(acc.summary, event_name)
        seen == DictGet(acc.details, event_name)
    IN  IF \E i \in 1..Len(seen) : seen[i].date = d.event_date
        THEN acc
        ELSE [acc EXCEPT !.summary =
                DictSet(acc.summary, event_name, [counts EXCEPT !.held = @ + 1])]

\* summary[event_name]["held"] += 1
IncHeld(acc, event_name, d) ==
    LET counts == DictGet(acc.summary, event_name)
    IN  [acc EXCEPT !.summary =
            DictSet(acc.summary, event_name, [counts EXCEPT !.held = @ + 1])]

\* Variant: the else is missing, missed is incremented for every record.
CountStatusNoElse(acc, event_name, d) ==
    LET counts == DictGet(acc.summary, event_name)
        c1 == IF d.status = "Attended"
              THEN [counts EXCEPT !.attended = @ + 1]
              ELSE counts
    IN  [acc EXCEPT !.summary =
            DictSet(acc.summary, event_name, [c1 EXCEPT !.missed = @ + 1])]

\* if status == "Attended": attended += 1 else: missed += 1
CountStatus(acc, event_name, d) ==
    LET counts == DictGet(acc.summary, event_name)
    IN  [acc EXCEPT !.summary =
            DictSet(acc.summary, event_name,
                    IF d.status = "Attended"
                    THEN [counts EXCEPT !.attended = @ + 1]
                    ELSE [counts EXCEPT !.missed = @ + 1])]

\* Variant: the newest detail goes first.
PrependDetail(acc, event_name, d) ==
    [acc EXCEPT !.details =
        DictSet(acc.details, event_name,
                <<Detail(d)>> \o DictGet(acc.details, event_name))]

\* details[event_name].append({...})
AppendDetail(acc, event_name, d) ==
    [acc EXCEPT !.details =
        DictSet(acc.details, event_name,
                Append(DictGet(acc.details, event_name), Detail(d)))]

\* One iteration of "for d in docs".
AggregateOne(acc, d) ==
    LET event_name == EventKey(d)
        a1 == EnsureEntry(acc, event_name)
        a2 == IncHeld(a1, event_name, d)
        a3 == CountStatus(a2, event_name, d)
    IN  AppendDetail(a3, event_name, d)

RECURSIVE Aggregate(_, _)
Aggregate(acc, docs) ==
    IF docs = <<>> THEN acc ELSE Aggregate(AggregateOne(acc, Head(docs)), Tail(docs))

\* for name, counts in summary.items(): result.append({...})
ToList(acc) ==
    [i \in 1..Len(acc.summary.keys) |->
        LET name == acc.summary.keys[i]
            counts == acc.summary.val[i]
        IN  [event_name |-> name, held |-> counts.held, attended |-> counts.attended,
             missed |-> counts.missed, details |-> DictGet(acc.details, name)]]

StatsResult(docs) == ToList(Aggregate([summary |-> EmptyDict, details |-> EmptyDict], docs))

\* Variant: an empty summary is answered 404.
StatsResponseNotFound(roll_number, result) ==
    IF result = <<>>
    THEN [status |-> 404, roll_number |-> roll_number, summary |-> <<>>]
    ELSE [status |-> 200, roll_number |-> roll_number, summary |-> result]

\* return {"roll_number": roll_number, "summary": result}
StatsResponse(roll_number, result) ==
    [status |-> 200, roll_number |-> roll_number, summary |-> result]

\* GET /stats/{roll_number}
student_stats(roll_number, academic_year) ==
    LET filter_q == StatsFilter(roll_number, academic_year)
        docs == find(participation, filter_q)
    IN  /\ stats_call' = [pc |-> "done", roll_number |-> roll_number,
                          academic_year |-> academic_year, docs |-> docs,
                          response |-> StatsResponse(roll_number, StatsResult(docs))]
        /\ UNCHANGED <<participation, student, roll_call, cs, create_resp>>

\* POST /participations
create_participation(p) ==
    /\ Len(participation) < MaxParticipations
    /\ participation' = create_document(participation, p)
    /\ UNCHANGED <<student, stats_call, roll_call, cs, create_resp>>

\* Server threads running create_student concurrently.
Workers == {"t1", "t2"}

Init ==
    /\ participation = <<>>
    /\ student = <<>>
    /\ stats_call = NoCall
    /\ roll_call = NoCall
    /\ cs = [w \in Workers |-> [pc |-> "idle"]]
    /\ create_resp = NoCall

\* --------------------------------------------------------- Python str order
\* ord(c) of the characters roll numbers are written with
Ord(c) ==
    CASE c = "0" -> 48 [] c = "1" -> 49 [] c = "2" -> 50 [] c = "3" -> 51
      [] c = "4" -> 52 [] c = "9" -> 57 [] c = "A" -> 65 [] c = "Y" -> 89

RECURSIVE StrLessFrom(_, _, _)
StrLessFrom(a, b, i) ==
    IF i > Len(b) THEN FALSE
    ELSE IF i > Len(a) THEN TRUE
    ELSE IF Ord(a[i]) # Ord(b[i]) THEN Ord(a[i]) < Ord(b[i])
    ELSE StrLessFrom(a, b, i + 1)

\* Variant: a numeric-aware order, the shorter roll number first.
StrLessNatural(a, b) ==
    IF Len(a) # Len(b) THEN Len(a) < Len(b) ELSE StrLessFrom(a, b, 1)

\* a < b on str: by code point at the first difference, a proper prefix first
StrLess(a, b) == StrLessFrom(a, b, 1)

\* sorted() is stable: x goes before the first element greater than it.
RECURSIVE InsertSorted(_, _)
InsertSorted(out, x) ==
    IF out = <<>> THEN <<x>>
    ELSE IF StrLess(x, Head(out)) THEN <<x>> \o out
    ELSE <<Head(out)>> \o InsertSorted(Tail(out), x)

RECURSIVE sorted(_)
sorted(list) ==
    IF list = <<>> THEN <<>>
    ELSE InsertSorted(sorted(SubSeq(list, 1, Len(list) - 1)), list[Len(list)])

\* -------------------------------------------------------- list_roll_numbers
\* Variant: the branch is not filtered on.
RollFilterYearOnly(academic_year, branch) == [academic_year |-> academic_year]

RollFilter(academic_year, branch) == [academic_year |-> academic_year, branch |-> branch]

\* GET /roll-numbers
list_roll_numbers(academic_year, branch) ==
    LET docs == find(student, RollFilter(academic_year, branch))
        roll_numbers == sorted([i \in 1..Len(docs) |-> docs[i].roll_number])
    IN  /\ roll_call' = [pc |-> "done", academic_year |-> academic_year,
                         branch |-> branch,
                         response |-> [status |-> 200, roll_numbers |-> roll_numbers]]
        /\ UNCHANGED <<participation, student, stats_call, cs, create_resp>>

\* ----------------------------------------------------------- create_student
DuplicateDetail == "Student with this roll number already exists"

\* str(e) of the HTTPException raised at line 86: "400: <detail>" where the
\* framework defines __str__, "" where it does not.
StrOfDuplicateError == {"400: " \o DuplicateDetail, ""}

Inserting == { w \in Workers : cs[w].pc = "insert" }

\* existing = find_one(...); if existing: raise HTTPException(400, ...), which
\* "except Exception" catches and raises again as 500 with detail str(e).
create_student_check(w, s) ==
    /\ cs[w].pc = "idle"
    /\ Len(student) + Cardinality(Inserting) < MaxStudents
    /\ LET existing == find_one(student, [roll_number |-> s.roll_number])
       IN  IF existing # None
           THEN /\ \E detail \in StrOfDuplicateError :
                      create_resp' = [status |-> 500, detail |-> detail]
                /\ UNCHANGED cs
           ELSE /\ cs' = [cs EXCEPT ![w] = [pc |-> "insert", student |-> s]]
                /\ UNCHANGED create_resp
    /\ UNCHANGED <<participation, student, stats_call, roll_call>>

\* _id = create_document("student", student); return {"id": _id}
create_student_insert(w) ==
    /\ cs[w].pc = "insert"
    /\ student' = create_document(student, cs[w].student)
    /\ create_resp' = [status |-> 201, id |-> Len(student')]
    /\ cs' = [cs EXCEPT ![w] = [pc |-> "idle"]]
    /\ UNCHANGED <<participation, stats_call, roll_call>>

NextStudents ==
    \/ \E w \in Workers, s \in Student : create_student_check(w, s)
    \/ \E w \in Workers : create_student_insert(w)
    \/ \E academic_year \in AcademicYears, branch \in Branches :
          list_roll_numbers(academic_year, branch)

SpecStudents == Init /\ [][NextStudents]_vars

NextStats ==
    \/ \E p \in Participation : create_participation(p)
    \/ \E roll_number \in {R3910, R3902}, academic_year \in QueryYears :
          student_stats(roll_number, academic_year)

SpecStats == Init /\ [][NextStats]_vars

\* ------------------------------------------------- what a report should be
\* The statements below are written against the records a call read
\* (stats_call.docs) or the collection, never through the handler's operators.
Indices(recs) == 1..Len(recs)

NamesIn(recs) == { recs[i].event_name : i \in Indices(recs) }

WithName(recs, name) == { i \in Indices(recs) : recs[i].event_name = name }

FirstIndex(recs, name) ==
    CHOOSE i \in WithName(recs, name) : \A j \in WithName(recs, name) : i <= j

EntryIndices(summary, name) == { i \in Indices(summary) : summary[i].event_name = name }

RecordsOf(recs, name) == SelectSeq(recs, LAMBDA d : d.event_name = name)

Projected(recs) ==
    [i \in Indices(recs) |->
        [date |-> recs[i].event_date, semester |-> recs[i].semester,
         status |-> recs[i].status]]

StatsDone == stats_call.pc = "done"

Report == stats_call.response

\* The collection has moved on since the call read it.
StaleSnapshot ==
    /\ StatsDone
    /\ find(participation, [roll_number |-> stats_call.roll_number]) # stats_call.docs
    /\ stats_call.academic_year = None

\* C1: every summary entry of every report returned by student_stats has
\* held = attended + missed, whatever the collection held when it was read
\* and whatever was created since.
C1_CountInvariant ==
    StatsDone =>
        \A i \in Indices(Report.summary) :
            Report.summary[i].held =
                Report.summary[i].attended + Report.summary[i].missed

C1_Witness ==
    /\ StaleSnapshot
    /\ \E i \in Indices(Report.summary) :
          /\ Report.summary[i].attended >= 1
          /\ Report.summary[i].missed >= 1

\* C2: the summary entries are in first-seen order: for two distinct event
\* names of the input, A's entry precedes B's exactly when the first record
\* named A precedes the first record named B.
C2_FirstSeenOrder ==
    StatsDone =>
        \A a, b \in NamesIn(stats_call.docs) :
            a # b =>
                /\ EntryIndices(Report.summary, a) # {}
                /\ EntryIndices(Report.summary, b) # {}
                /\ \A i \in EntryIndices(Report.summary, a),
                      j \in EntryIndices(Report.summary, b) :
                        (i < j) <=>
                            (FirstIndex(stats_call.docs, a) < FirstIndex(stats_call.docs, b))

\* "hackathon", "Hackathon", "hackathon": first-seen order differs from the
\* order of last occurrence.
C2_Witness ==
    /\ StatsDone
    /\ Len(stats_call.docs) = 3
    /\ stats_call.docs[1].event_name = "hackathon"
    /\ stats_call.docs[2].event_name = "Hackathon"
    /\ stats_call.docs[3].event_name = "hackathon"
    /\ Len(Report.summary) = 2
    /\ Report.summary[1].event_name = "hackathon"

\* C3: the details of an entry are the input records of its event name, in
\* input order, each reduced to date, semester and status.
C3_DetailsInInputOrder ==
    StatsDone =>
        \A i \in Indices(Report.summary) :
            /\ Report.summary[i].details =
                  Projected(RecordsOf(stats_call.docs, Report.summary[i].event_name))
            /\ \A k \in Indices(Report.summary[i].details) :
                  DOMAIN Report.summary[i].details[k] = {"date", "semester", "status"}

\* An entry whose records arrived October first, September second.
C3_Witness ==
    /\ StatsDone
    /\ \E i \in Indices(Report.summary) :
          /\ Len(Report.summary[i].details) = 2
          /\ Report.summary[i].details[1].date = "2024-10-01"
          /\ Report.summary[i].details[1].semester = 4
          /\ Report.summary[i].details[2].date = "2024-09-01"
          /\ Report.summary[i].details[2].status = "Missed"

\* C4: held is the number of input records of the entry's event name
\* (records equal in event and date each count), attended the number of
\* those with status Attended, missed the number with status Missed.
C4_Counts ==
    StatsDone =>
        \A i \in Indices(Report.summary) :
            LET mine == WithName(stats_call.docs, Report.summary[i].event_name)
            IN  /\ Report.summary[i].held = Cardinality(mine)
                /\ Report.summary[i].attended =
                      Cardinality({ k \in mine : stats_call.docs[k].status = "Attended" })
                /\ Report.summary[i].missed =
                      Cardinality({ k \in mine : stats_call.docs[k].status = "Missed" })

\* Two records of the same event on the same date, both counted.
C4_Witness ==
    /\ StatsDone
    /\ \E k, l \in Indices(stats_call.docs) :
          /\ k < l
          /\ stats_call.docs[k].event_name = stats_call.docs[l].event_name
          /\ stats_call.docs[k].event_date = stats_call.docs[l].event_date
          /\ \E i \in Indices(Report.summary) :
                /\ Report.summary[i].event_name = stats_call.docs[k].event_name
                /\ Report.summary[i].held >= 2

\* C5: grouping is by exact equality of event_name: the summary has exactly
\* one entry per distinct event_name of the input, and an entry holds the
\* records of exactly its own name, so two records share an entry exactly when
\* their names are identical.
C5_ExactNameGrouping ==
    StatsDone =>
        /\ { Report.summary[i].event_name : i \in Indices(Report.summary) } =
              NamesIn(stats_call.docs)
        /\ \A i, j \in Indices(Report.summary) :
              Report.summary[i].event_name = Report.summary[j].event_name => i = j
        /\ \A i \in Indices(Report.summary) :
              Len(Report.summary[i].details) =
                  Cardinality(WithName(stats_call.docs, Report.summary[i].event_name))

\* Names that differ only in case, in two entries.
C5_Witness ==
    /\ StatsDone
    /\ NamesIn(stats_call.docs) = {"Hackathon", "hackathon"}
    /\ Len(Report.summary) = 2
    /\ Report.summary[1].event_name = "Hackathon"
    /\ Report.summary[2].event_name = "hackathon"

\* C8: when no participation record has the requested roll_number (no
\* Student record is consulted either), student_stats answers 200 with
\* {roll_number: the requested one, summary: []}.
C8_EmptyReport ==
    /\ StatsDone
    /\ \A i \in Indices(participation) :
          participation[i].roll_number # stats_call.roll_number
    => Report = [status |-> 200, roll_number |-> stats_call.roll_number,
                 summary |-> <<>>]

\* The collection holds records of another student only, and no Student.
C8_Witness ==
    /\ StatsDone
    /\ student = <<>>
    /\ participation # <<>>
    /\ \A i \in Indices(participation) :
          participation[i].roll_number # stats_call.roll_number
    /\ Report.summary = <<>>

\* ------------------------------------------------------------- C9
\* The report a call should give from the records `recs`.
FirstSeenIndices(recs) ==
    { i \in Indices(recs) : \A j \in 1..(i - 1) : recs[j].event_name # recs[i].event_name }

NthFirstSeen(recs, n) ==
    CHOOSE i \in FirstSeenIndices(recs) :
        Cardinality({ j \in FirstSeenIndices(recs) : j < i }) = n - 1

ExpectedEntry(recs, name) ==
    LET mine == RecordsOf(recs, name)
        attended == Cardinality({ k \in Indices(mine) : mine[k].status = "Attended" })
    IN  [event_name |-> name, held |-> Len(mine), attended |-> attended,
         missed |-> Len(mine) - attended, details |-> Projected(mine)]

ExpectedSummary(recs) ==
    [n \in 1..Cardinality(FirstSeenIndices(recs)) |->
        ExpectedEntry(recs, recs[NthFirstSeen(recs, n)].event_name)]

OfStudent(roll_number) ==
    SelectSeq(participation, LAMBDA p : p.roll_number = roll_number)

OfStudentInYear(roll_number, year) ==
    SelectSeq(participation,
              LAMBDA p : p.roll_number = roll_number /\ p.academic_year = year)

\* A step of student_stats, with the arguments the call recorded.
StatsStep ==
    /\ stats_call'.pc = "done"
    /\ student_stats(stats_call'.roll_number, stats_call'.academic_year)

\* C9 as stated: any supplied academic_year, the empty string included,
\* narrows the report to the records of that year.
C9_AsStated ==
    [][StatsStep =>
        LET roll_number == stats_call'.roll_number
            academic_year == stats_call'.academic_year
        IN  stats_call'.response.summary =
                ExpectedSummary(IF academic_year # None
                                THEN OfStudentInYear(roll_number, TheValue(academic_year))
                                ELSE OfStudent(roll_number))]_vars

\* C9, amended: a non-empty academic_year narrows the report to the records
\* of the requested roll_number and that year; with no academic_year, or an
\* empty one, the report is computed from all records of the roll_number.
C9_YearFilter ==
    [][StatsStep =>
        LET roll_number == stats_call'.roll_number
            academic_year == stats_call'.academic_year
        IN  stats_call'.response.summary =
                ExpectedSummary(IF academic_year # None /\ academic_year # Some("")
                                THEN OfStudentInYear(roll_number, TheValue(academic_year))
                                ELSE OfStudent(roll_number))]_vars

\* A call for one year while the student has records of both years.
C9_Witness ==
    /\ StatsDone
    /\ stats_call.academic_year = Some("2024-25")
    /\ stats_call.docs # <<>>
    /\ stats_call.docs = OfStudentInYear(stats_call.roll_number, "2024-25")
    /\ stats_call.docs # OfStudent(stats_call.roll_number)
    /\ \E i \in Indices(participation) :
          /\ participation[i].roll_number # stats_call.roll_number
          /\ participation[i].academic_year = "2024-25"

\* ------------------------------------------------------------- C6, C10
\* C6: the Student collection never holds two records with the same
\* roll_number, also when the existence check and the insert of concurrent
\* create_student requests interleave.
C6_UniqueRollNumber ==
    \A i, j \in Indices(student) :
        student[i].roll_number = student[j].roll_number => i = j

\* C10: a create_student request whose roll_number is already in the
\* collection is answered 400 "Student with this roll number already exists"
\* and leaves the collection unchanged.
C10_DuplicateRejected ==
    [][\A w \in Workers, s \in Student :
         /\ create_student_check(w, s)
         /\ \E i \in Indices(student) : student[i].roll_number = s.roll_number
         => /\ create_resp'.status = 400
            /\ create_resp'.detail = DuplicateDetail
            /\ student' = student]_vars

\* ------------------------------------------------------------- C7
\* Lexicographic order stated by the first difference: a <= b when a is a
\* prefix of b, or a has the smaller code point where they first differ.
CommonLen(a, b) == IF Len(a) < Len(b) THEN Len(a) ELSE Len(b)

LexLeq(a, b) ==
    LET diff == { i \in 1..CommonLen(a, b) : a[i] # b[i] }
    IN  IF diff = {}
        THEN Len(a) <= Len(b)
        ELSE LET k == CHOOSE i \in diff : \A j \in diff : i <= j
             IN  Ord(a[k]) < Ord(b[k])

Occurrences(seq, x) == Cardinality({ i \in Indices(seq) : seq[i] = x })

MatchingStudents(academic_year, branch) ==
    { i \in Indices(student) :
        student[i].academic_year = academic_year /\ student[i].branch = branch }

IndexOf(seq, x) == CHOOSE i \in Indices(seq) : seq[i] = x

\* A step of list_roll_numbers, with the arguments the call recorded.
RollStep ==
    /\ roll_call'.pc = "done"
    /\ list_roll_numbers(roll_call'.academic_year, roll_call'.branch)

\* C7: list_roll_numbers(academic_year, branch) returns the roll_number of
\* every Student record equal to both arguments, once per matching record
\* and no other value, in ascending lexicographic order of the strings, so
\* "249Y1A399" after "249Y1A3910".
C7_RollNumbersSorted ==
    [][RollStep =>
        LET out == roll_call'.response.roll_numbers
            matching == MatchingStudents(roll_call'.academic_year, roll_call'.branch)
        IN  /\ roll_call'.response.status = 200
            /\ Len(out) = Cardinality(matching)
            /\ \A r \in RollNumbers :
                  Occurrences(out, r) =
                      Cardinality({ i \in matching : student[i].roll_number = r })
            /\ \A i, j \in Indices(out) : i < j => LexLeq(out[i], out[j])
            /\ (Occurrences(out, R399) > 0 /\ Occurrences(out, R3910) > 0)
                  => IndexOf(out, R3910) < IndexOf(out, R399)]_vars

\* The three roll numbers of one class, created in descending order, listed
\* while the collection also holds a student of another class.
C7_Witness ==
    /\ roll_call.pc = "done"
    /\ roll_call.response.roll_numbers = <<R3902, R3910, R399>>
    /\ \E i \in Indices(student) :
          student[i].academic_year # roll_call.academic_year
    /\ \E i, j \in Indices(student) :
          /\ i < j
          /\ student[i].roll_number = R399
          /\ student[j].roll_number = R3902
          /\ student[i].academic_year = roll_call.academic_year
          /\ student[j].academic_year = roll_call.academic_year
          /\ student[i].branch = roll_call.branch
          /\ student[j].branch = roll_call.branch

====
